---- MODULE Spec2Model ----
(***************************************************************************)
(* Model of the ink! ballot contract, src/examples/ballot/lib.rs.          *)
(*                                                                         *)
(* The contract storage is the struct Ballot {chair_person, voters,        *)
(* proposals}.  Every #[ink(message)] runs against `&mut self`; an         *)
(* assert_eq!/assert_ne!/unwrap that fails panics, and a panicking message *)
(* traps: nothing it wrote through `self` is kept.  Each message is        *)
(* modelled by an operator that follows the statements of the function in  *)
(* order and yields an outcome record holding the in-memory voters and     *)
(* proposals at the point where the function returned or panicked; the     *)
(* action of the message then keeps them (return) or drops them (panic).   *)
(***************************************************************************)
EXTENDS Integers, Sequences, FiniteSets

\* ------------------------------------------------------------------ bounds
\* Number of account ids that deploy and call the contract.
NumAccounts == 3
\* Most proposals the ballot holds (constructor names plus add_proposal).
MaxProposals == 2

Accounts == 1..NumAccounts
\* Proposal names handed to new() and add_proposal(): callers name the
\* proposals distinctly, the k-th one NamePool[k].
NamePool == <<"Proposal #1", "Proposal #2", "Proposal #3", "Proposal #4">>
\* Arguments tried for vote(): one below, the valid ones, one above.
VoteArgs == (0 - 1)..MaxProposals

\* ------------------------------------------------------------------ state
VARIABLES chair_person, voters, proposals, last

vars == <<chair_person, voters, proposals, last>>

\* Option<T>: None, Some(x).
None == <<>>
Some(x) == <<x>>
Unwrap(o) == o[1]

\* struct Voter
Voter(weight, voted, delegate, vote) ==
    [weight |-> weight, voted |-> voted, delegate |-> delegate, vote |-> vote]

\* struct Proposal
Proposal(name, vote_count) == [name |-> name, vote_count |-> vote_count]

\* HashMap::insert / HashMap::get on the voters map (a function whose
\* domain is the set of registered account ids).
Insert(map, key, value) ==
    [k \in (DOMAIN map) \cup {key} |-> IF k = key THEN value ELSE map[k]]

Contains(map, key) == key \in DOMAIN map

\* ------------------------------------------------------- panic messages
Unauthorized == "only chair person can give right to vote"
UnknownTarget == "provided voterId does not exist"
TargetAlreadyVoted == "the voter has already voted"
SelfDelegation == "Self-delegation is disallowed."
UnknownCaller == "Caller is not a valid voter"
AlreadyVoted == "You have already voted"
InvalidDelegate == "The delegated address is not valid"
UnwrapNone == "called Option::unwrap() on a None value"
UnknownSender == "Sender is not a voter!"
NoRight == "You have no right to vote"
IndexOutOfBounds == "Proposal index out of bound"
NoWinner == "No Proposal!"
\* self.proposals[voted_to] with voted_to past the end of the Vec.
IndexPanic == "index out of bounds"

\* ------------------------------------------------------------- outcomes
\* The function returned `ret`, with `v` and `p` as self.voters and
\* self.proposals (no message assigns self.chair_person).
Ok(v, p, ret) ==
    [ok |-> TRUE, msg |-> "ok", chair_person |-> chair_person, voters |-> v,
     proposals |-> p, ret |-> ret]
\* The function panicked with `msg` while self.voters and self.proposals
\* held `v` and `p`.
Panic(msg, v, p) ==
    [ok |-> FALSE, msg |-> msg, chair_person |-> chair_person, voters |-> v,
     proposals |-> p, ret |-> None]

\* `i as usize` for an i32: a negative value wraps to the top of the usize
\* range.  The largest integer TLC represents stands for that top, so a
\* negative index is never below any Vec length of the model.
UsizeTop == 2147483647
AsUsize(i) == IF i < 0 THEN (i + UsizeTop) + 1 ELSE i

\* Vec::get / Vec::get_mut / Index: position `u` (usize, 0-based) is in the Vec.
InVec(vec, u) == u < Len(vec)

\* ------------------------------------------------------------- messages
\* Mutant of new: the chairperson is inserted like any added voter, with
\* weight 0.
new_without_right(caller, proposal_names) ==
    LET names == IF proposal_names = None THEN <<>> ELSE Unwrap(proposal_names)
    IN  [chair_person |-> caller,
         voters |-> Insert(<<>>, caller, Voter(0, FALSE, None, None)),
         proposals |-> [i \in 1..Len(names) |-> Proposal(names[i], 0)]]

\* Ballot::new
new(caller, proposal_names) ==
    LET names == IF proposal_names = None THEN <<>> ELSE Unwrap(proposal_names)
    IN  [chair_person |-> caller,
         voters |-> Insert(<<>>, caller, Voter(1, FALSE, None, None)),
         proposals |-> [i \in 1..Len(names) |-> Proposal(names[i], 0)]]

\* Mutant of give_voting_right: the caller is not compared with
\* self.chair_person.
give_voting_right_by_anyone(caller, voter_id) ==
    IF ~Contains(voters, voter_id) THEN Panic(UnknownTarget, voters, proposals)
    ELSE IF voters[voter_id].voted THEN Panic(TargetAlreadyVoted, voters, proposals)
    ELSE Ok([voters EXCEPT ![voter_id].weight = 1], proposals, None)

\* Mutant of give_voting_right: the right is added to the weight the voter
\* already has.
give_voting_right_adds(caller, voter_id) ==
    IF caller # chair_person THEN Panic(Unauthorized, voters, proposals)
    ELSE IF ~Contains(voters, voter_id) THEN Panic(UnknownTarget, voters, proposals)
    ELSE IF voters[voter_id].voted THEN Panic(TargetAlreadyVoted, voters, proposals)
    ELSE Ok([voters EXCEPT ![voter_id].weight = @ + 1], proposals, None)

\* Ballot::give_voting_right
give_voting_right(caller, voter_id) ==
    IF caller # chair_person THEN Panic(Unauthorized, voters, proposals)
    ELSE IF ~Contains(voters, voter_id) THEN Panic(UnknownTarget, voters, proposals)
    ELSE IF voters[voter_id].voted THEN Panic(TargetAlreadyVoted, voters, proposals)
    ELSE Ok([voters EXCEPT ![voter_id].weight = 1], proposals, None)

\* Mutant of add_voter: the voter is inserted without looking it up first.
add_voter_overwrites(voter_id) ==
    Ok(Insert(voters, voter_id, Voter(0, FALSE, None, None)), proposals,
       Some(~Contains(voters, voter_id)))

\* Ballot::add_voter
add_voter(voter_id) ==
    IF Contains(voters, voter_id) THEN Ok(voters, proposals, Some(FALSE))
    ELSE Ok(Insert(voters, voter_id, Voter(0, FALSE, None, None)), proposals, Some(TRUE))

\* Mutant of delegate: a delegate that has voted is credited one vote instead
\* of sender_weight.
delegate_counts_one(sender_id, to) ==
    IF to = sender_id THEN Panic(SelfDelegation, voters, proposals)
    ELSE IF ~Contains(voters, sender_id) THEN Panic(UnknownCaller, voters, proposals)
    ELSE IF voters[sender_id].voted THEN Panic(AlreadyVoted, voters, proposals)
    ELSE
      LET marked == [voters EXCEPT ![sender_id].voted = TRUE,
                                   ![sender_id].delegate = Some(to)]
      IN  IF ~Contains(marked, to) THEN Panic(InvalidDelegate, marked, proposals)
          ELSE IF marked[to].voted
          THEN IF marked[to].vote = None THEN Panic(UnwrapNone, marked, proposals)
               ELSE LET voted_to == AsUsize(Unwrap(marked[to].vote))
                    IN  IF ~InVec(proposals, voted_to)
                        THEN Panic(IndexPanic, marked, proposals)
                        ELSE Ok(marked,
                                [proposals EXCEPT ![voted_to + 1].vote_count = @ + 1],
                                None)
          ELSE Ok([marked EXCEPT ![to].weight = @ + marked[sender_id].weight],
                  proposals, None)

\* Mutant of delegate: when the delegate has voted, the sender also takes
\* over the delegate's vote.
delegate_copies_vote(sender_id, to) ==
    IF to = sender_id THEN Panic(SelfDelegation, voters, proposals)
    ELSE IF ~Contains(voters, sender_id) THEN Panic(UnknownCaller, voters, proposals)
    ELSE IF voters[sender_id].voted THEN Panic(AlreadyVoted, voters, proposals)
    ELSE
      LET sender_weight == voters[sender_id].weight
          marked == [voters EXCEPT ![sender_id].voted = TRUE,
                                   ![sender_id].delegate = Some(to)]
      IN  IF ~Contains(marked, to) THEN Panic(InvalidDelegate, marked, proposals)
          ELSE IF marked[to].voted
          THEN IF marked[to].vote = None THEN Panic(UnwrapNone, marked, proposals)
               ELSE LET voted_to == AsUsize(Unwrap(marked[to].vote))
                    IN  IF ~InVec(proposals, voted_to)
                        THEN Panic(IndexPanic, marked, proposals)
                        ELSE Ok([marked EXCEPT ![sender_id].vote = marked[to].vote],
                                [proposals EXCEPT ![voted_to + 1].vote_count =
                                                      @ + sender_weight],
                                None)
          ELSE Ok([marked EXCEPT ![to].weight = @ + sender_weight], proposals, None)

\* Mutant of delegate: the delegate's weight grows whether or not the
\* delegate has voted.
delegate_always_adds_weight(sender_id, to) ==
    IF to = sender_id THEN Panic(SelfDelegation, voters, proposals)
    ELSE IF ~Contains(voters, sender_id) THEN Panic(UnknownCaller, voters, proposals)
    ELSE IF voters[sender_id].voted THEN Panic(AlreadyVoted, voters, proposals)
    ELSE
      LET sender_weight == voters[sender_id].weight
          marked == [voters EXCEPT ![sender_id].voted = TRUE,
                                   ![sender_id].delegate = Some(to)]
          credited == [marked EXCEPT ![to].weight = @ + sender_weight]
      IN  IF ~Contains(marked, to) THEN Panic(InvalidDelegate, marked, proposals)
          ELSE IF marked[to].voted
          THEN IF marked[to].vote = None THEN Panic(UnwrapNone, marked, proposals)
               ELSE LET voted_to == AsUsize(Unwrap(marked[to].vote))
                    IN  IF ~InVec(proposals, voted_to)
                        THEN Panic(IndexPanic, marked, proposals)
                        ELSE Ok(credited,
                                [proposals EXCEPT ![voted_to + 1].vote_count =
                                                      @ + sender_weight],
                                None)
          ELSE Ok(credited, proposals, None)

\* Mutant of delegate: `to` is compared with the caller only after the
\* caller's own record has been checked.
delegate_self_check_late(sender_id, to) ==
    IF ~Contains(voters, sender_id) THEN Panic(UnknownCaller, voters, proposals)
    ELSE IF voters[sender_id].voted THEN Panic(AlreadyVoted, voters, proposals)
    ELSE IF to = sender_id THEN Panic(SelfDelegation, voters, proposals)
    ELSE
      LET sender_weight == voters[sender_id].weight
          marked == [voters EXCEPT ![sender_id].voted = TRUE,
                                   ![sender_id].delegate = Some(to)]
      IN  IF ~Contains(marked, to) THEN Panic(InvalidDelegate, marked, proposals)
          ELSE IF marked[to].voted
          THEN IF marked[to].vote = None THEN Panic(UnwrapNone, marked, proposals)
               ELSE LET voted_to == AsUsize(Unwrap(marked[to].vote))
                    IN  IF ~InVec(proposals, voted_to)
                        THEN Panic(IndexPanic, marked, proposals)
                        ELSE Ok(marked,
                                [proposals EXCEPT ![voted_to + 1].vote_count =
                                                      @ + sender_weight],
                                None)
          ELSE Ok([marked EXCEPT ![to].weight = @ + sender_weight], proposals, None)

\* Ballot::delegate
delegate(sender_id, to) ==
    IF to = sender_id THEN Panic(SelfDelegation, voters, proposals)
    ELSE IF ~Contains(voters, sender_id) THEN Panic(UnknownCaller, voters, proposals)
    ELSE IF voters[sender_id].voted THEN Panic(AlreadyVoted, voters, proposals)
    ELSE
      LET sender_weight == voters[sender_id].weight
          \* sender.voted = true; sender.delegate = Some(to);
          marked == [voters EXCEPT ![sender_id].voted = TRUE,
                                   ![sender_id].delegate = Some(to)]
      IN  IF ~Contains(marked, to) THEN Panic(InvalidDelegate, marked, proposals)
          ELSE IF marked[to].voted
          THEN IF marked[to].vote = None THEN Panic(UnwrapNone, marked, proposals)
               ELSE LET voted_to == AsUsize(Unwrap(marked[to].vote))
                    IN  IF ~InVec(proposals, voted_to)
                        THEN Panic(IndexPanic, marked, proposals)
                        ELSE Ok(marked,
                                [proposals EXCEPT ![voted_to + 1].vote_count =
                                                      @ + sender_weight],
                                None)
          ELSE Ok([marked EXCEPT ![to].weight = @ + sender_weight], proposals, None)

\* Mutant of vote: sender.voted is not checked.
vote_again(sender_id, proposal_index) ==
    IF ~Contains(voters, sender_id) THEN Panic(UnknownSender, voters, proposals)
    ELSE IF voters[sender_id].weight # 1 THEN Panic(NoRight, voters, proposals)
    ELSE IF ~InVec(proposals, AsUsize(proposal_index))
         THEN Panic(IndexOutOfBounds, voters, proposals)
    ELSE
      LET marked == [voters EXCEPT ![sender_id].voted = TRUE,
                                   ![sender_id].vote = Some(proposal_index)]
      IN  Ok(marked,
             [proposals EXCEPT ![AsUsize(proposal_index) + 1].vote_count =
                                   @ + marked[sender_id].weight],
             None)

\* Mutant of vote: sender.weight is not checked.
vote_without_right(sender_id, proposal_index) ==
    IF ~Contains(voters, sender_id) THEN Panic(UnknownSender, voters, proposals)
    ELSE IF voters[sender_id].voted THEN Panic(AlreadyVoted, voters, proposals)
    ELSE IF ~InVec(proposals, AsUsize(proposal_index))
         THEN Panic(IndexOutOfBounds, voters, proposals)
    ELSE
      LET marked == [voters EXCEPT ![sender_id].voted = TRUE,
                                   ![sender_id].vote = Some(proposal_index)]
      IN  Ok(marked,
             [proposals EXCEPT ![AsUsize(proposal_index) + 1].vote_count =
                                   @ + marked[sender_id].weight],
             None)

\* Ballot::vote
vote(sender_id, proposal_index) ==
    IF ~Contains(voters, sender_id) THEN Panic(UnknownSender, voters, proposals)
    ELSE IF voters[sender_id].voted THEN Panic(AlreadyVoted, voters, proposals)
    ELSE IF voters[sender_id].weight # 1 THEN Panic(NoRight, voters, proposals)
    ELSE IF ~InVec(proposals, AsUsize(proposal_index))
         THEN Panic(IndexOutOfBounds, voters, proposals)
    ELSE
      LET marked == [voters EXCEPT ![sender_id].voted = TRUE,
                                   ![sender_id].vote = Some(proposal_index)]
      IN  Ok(marked,
             [proposals EXCEPT ![AsUsize(proposal_index) + 1].vote_count =
                                   @ + marked[sender_id].weight],
             None)

\* Mutant of winning_proposal: the loop compares with >= instead of >.
RECURSIVE winning_scan_ge(_, _, _, _)
winning_scan_ge(props, index, winning_vote_vount, winning_index) ==
    IF index >= Len(props) THEN winning_index
    ELSE IF props[index + 1].vote_count >= winning_vote_vount
         THEN winning_scan_ge(props, index + 1, props[index + 1].vote_count, Some(index))
         ELSE winning_scan_ge(props, index + 1, winning_vote_vount, winning_index)

winning_proposal_ge(props) == winning_scan_ge(props, 0, 0, None)

\* Ballot::winning_proposal: the loop over self.proposals.iter(), `index`
\* proposals done, with the running winning_vote_vount and winning_index.
RECURSIVE winning_scan(_, _, _, _)
winning_scan(props, index, winning_vote_vount, winning_index) ==
    IF index >= Len(props) THEN winning_index
    ELSE IF props[index + 1].vote_count > winning_vote_vount
         THEN winning_scan(props, index + 1, props[index + 1].vote_count, Some(index))
         ELSE winning_scan(props, index + 1, winning_vote_vount, winning_index)

winning_proposal(props) == winning_scan(props, 0, 0, None)

\* Mutant of get_winning_proposal_name: a missing winner falls back to the
\* first proposal when there is one.
get_winning_proposal_name_or_first ==
    LET winner_index == winning_proposal(proposals)
    IN  IF winner_index = None
        THEN IF Len(proposals) = 0 THEN Panic(NoWinner, voters, proposals)
             ELSE Ok(voters, proposals, Some(proposals[1].name))
        ELSE Ok(voters, proposals, Some(proposals[Unwrap(winner_index) + 1].name))

\* Ballot::get_winning_proposal_name
get_winning_proposal_name ==
    LET winner_index == winning_proposal(proposals)
    IN  IF winner_index = None THEN Panic(NoWinner, voters, proposals)
        ELSE Ok(voters, proposals, Some(proposals[Unwrap(winner_index) + 1].name))

\* Mutant of add_proposal: the new proposal is put in front of the others.
add_proposal_in_front(proposal_name) ==
    Ok(voters, <<Proposal(proposal_name, 0)>> \o proposals, None)

\* Ballot::add_proposal
add_proposal(proposal_name) ==
    Ok(voters, Append(proposals, Proposal(proposal_name, 0)), None)

\* Mutant of Commit: a failed message signals its failure without trapping,
\* so what it had written by then stays.
Commit_without_revert(out) ==
    [chair_person |-> out.chair_person, voters |-> out.voters,
     proposals |-> out.proposals]

\* ------------------------------------------------------------- dispatch
\* One contract call: the message ran to outcome `out`.  A returned message
\* leaves its self.voters / self.proposals as the storage; a panicked one
\* leaves the storage as it was before the call.
Commit(out) ==
    IF out.ok
    THEN [chair_person |-> out.chair_person, voters |-> out.voters,
          proposals |-> out.proposals]
    ELSE [chair_person |-> chair_person, voters |-> voters, proposals |-> proposals]

\* `last` records the call: the message, the panic message or "ok", and the
\* value returned.
Call(op, out) ==
    /\ chair_person' = Commit(out).chair_person
    /\ voters' = Commit(out).voters
    /\ proposals' = Commit(out).proposals
    /\ last' = [op |-> op, result |-> out.msg, ret |-> out.ret]

\* Account ids are interchangeable; the contract is deployed by the first.
Deployers == {1}

Init ==
    \E caller \in Deployers :
      \E proposal_names \in {None} \cup {Some(SubSeq(NamePool, 1, n)) : n \in 0..MaxProposals} :
        LET b == new(caller, proposal_names)
        IN  /\ chair_person = b.chair_person
            /\ voters = b.voters
            /\ proposals = b.proposals
            /\ last = [op |-> "new", result |-> "ok", ret |-> None]

GiveVotingRight ==
    \E caller \in Accounts, voter_id \in Accounts :
        Call("give_voting_right", give_voting_right(caller, voter_id))

AddVoter ==
    \E voter_id \in Accounts :
        Call("add_voter", add_voter(voter_id))

Delegate ==
    \E caller \in Accounts, to \in Accounts :
        Call("delegate", delegate(caller, to))

Vote ==
    \E caller \in Accounts, proposal_index \in VoteArgs :
        Call("vote", vote(caller, proposal_index))

GetWinningProposalName ==
    Call("get_winning_proposal_name", get_winning_proposal_name)

AddProposal ==
    \E proposal_name \in {NamePool[Len(proposals) + 1]} :
        /\ Len(proposals) < MaxProposals
        /\ Call("add_proposal", add_proposal(proposal_name))

Next ==
    \/ GiveVotingRight
    \/ AddVoter
    \/ Delegate
    \/ Vote
    \/ GetWinningProposalName
    \/ AddProposal

Spec == Init /\ [][Next]_vars

\* =================================================================== claims
\* Positions of self.proposals, 0-based as the messages take them.
ValidIndices == 0..(Len(proposals) - 1)
Registered == DOMAIN voters
HasVoted == {v \in Registered : voters[v].voted}

\* C1: every registered voter v with voted = false and weight > 0, whatever
\* the weight, can vote for every valid index i: the call returns, adds
\* exactly v's weight to proposals[i].vote_count, leaves every other proposal
\* as it was, and leaves v with voted = true and vote = Some(i).
C1_VoteCountsFullWeight ==
    \A v \in Registered, i \in ValidIndices :
        (~voters[v].voted /\ voters[v].weight > 0) =>
            LET out == vote(v, i)
                after == Commit(out)
            IN  /\ out.ok
                /\ after.proposals[i + 1].vote_count =
                       proposals[i + 1].vote_count + voters[v].weight
                /\ \A k \in ValidIndices \ {i} : after.proposals[k + 1] = proposals[k + 1]
                /\ after.voters[v].voted
                /\ after.voters[v].vote = Some(i)

\* C2: once X (weight 1) has delegated to Y (own weight 1, not voted), so
\* that Y holds weight 2, Y's vote for a valid index i that nobody touched
\* returns and leaves proposals[i].vote_count = 2.
C2_DelegatedWeightCounted ==
    \A x \in Registered, y \in Registered, i \in ValidIndices :
        ( /\ x # y
          /\ voters[x].voted /\ voters[x].delegate = Some(y) /\ voters[x].weight = 1
          /\ ~voters[y].voted /\ voters[y].weight = 2
          /\ proposals[i + 1].vote_count = 0 ) =>
            LET out == vote(y, i)
            IN  out.ok /\ Commit(out).proposals[i + 1].vote_count = 2

C4_DelegateFailsOnlyForListedReasons ==
    \A x \in Registered, y \in Registered :
        (x # y /\ ~voters[x].voted) =>
            LET out == delegate(x, y)
                after == Commit(out)
            IN  /\ out.ok
                /\ after.voters[x].voted
                /\ after.voters[x].delegate = Some(y)

\* C5: when X (voted = false, weight w) delegates to a registered Y that has
\* voted for index j, the call returns, proposals[j].vote_count grows by
\* exactly w, no other proposal and no voter's weight changes, and X ends with
\* voted = true, delegate = Some(Y) and vote = None.
C5_DelegateToVotedSettlesAtOnce ==
    \A x \in Registered, y \in Registered :
        (x # y /\ ~voters[x].voted /\ voters[y].voted /\ voters[y].vote # None) =>
            LET out == delegate(x, y)
                after == Commit(out)
                j == Unwrap(voters[y].vote)
            IN  /\ out.ok
                /\ j \in ValidIndices
                /\ after.proposals[j + 1].vote_count =
                       proposals[j + 1].vote_count + voters[x].weight
                /\ \A k \in ValidIndices \ {j} : after.proposals[k + 1] = proposals[k + 1]
                /\ DOMAIN after.voters = Registered
                /\ \A v \in Registered : after.voters[v].weight = voters[v].weight
                /\ after.voters[x].voted
                /\ after.voters[x].delegate = Some(y)
                /\ after.voters[x].vote = None

\* C5 witness: only X and Y have voted, Y by voting for j and X (weight 1) by
\* a delegation to Y that has just returned; Y's own vote of weight 1 and X's
\* settled weight make proposals[j].vote_count = 2.
C5_Witness ==
    /\ last.op = "delegate" /\ last.result = "ok"
    /\ \E x \in Registered, y \in Registered :
          /\ HasVoted = {x, y} /\ x # y
          /\ voters[x].delegate = Some(y) /\ voters[x].vote = None
          /\ voters[x].weight = 1 /\ voters[y].weight = 1
          /\ voters[y].vote # None
          /\ proposals[Unwrap(voters[y].vote) + 1].vote_count = 2

\* C6 (both statements): in every step a voter with voted = true keeps
\* voted = true and keeps its delegate and its vote.
C6_VotedIsTerminal ==
    \A v \in Registered :
        voters[v].voted =>
            /\ voters'[v].voted
            /\ voters'[v].delegate = voters[v].delegate
            /\ voters'[v].vote = voters[v].vote

\* C6 as claimed: every vote and every delegate call by a voter with
\* voted = true fails with the already-voted panic.
C6_RepeatFailsAlreadyVoted ==
    \A v \in HasVoted :
        /\ \A i \in VoteArgs : vote(v, i).msg = AlreadyVoted
        /\ \A to \in Accounts : delegate(v, to).msg = AlreadyVoted

\* C6 as claimed: once a voter has voted = true, each of its later vote or
\* delegate calls fails with the already-voted panic, and its voted, delegate
\* and vote never change again.
C6_NoSecondVoteAsClaimed ==
    []C6_RepeatFailsAlreadyVoted /\ [][C6_VotedIsTerminal]_vars

\* C6 amended: every vote call by a voter with voted = true fails with the
\* already-voted panic; every delegate call by it fails too, with the
\* already-voted panic when the target is another account and with the
\* self-delegation panic, which is checked first, when the target is itself.
C6_RepeatFails ==
    \A v \in HasVoted :
        /\ \A i \in VoteArgs : vote(v, i).msg = AlreadyVoted
        /\ \A to \in Accounts :
              delegate(v, to).msg = IF to = v THEN SelfDelegation ELSE AlreadyVoted

\* C6 amended: once a voter has voted = true, each of its later vote or
\* delegate calls fails (already-voted, or self-delegation for delegate to
\* itself), and its voted, delegate and vote never change again.
C6_NoSecondVote ==
    []C6_RepeatFails /\ [][C6_VotedIsTerminal]_vars

\* C6 witness: a call by a voter that had already voted or delegated has just
\* failed with the already-voted panic.
C6_Witness ==
    /\ last.op \in {"vote", "delegate"}
    /\ last.result = AlreadyVoted
    /\ HasVoted # {}

\* C7: every voter with voted = true has exactly one of vote and delegate set.
C7_VoteXorDelegate ==
    \A v \in HasVoted : (voters[v].vote # None) # (voters[v].delegate # None)

\* C7 witness: one voter has voted for a proposal and another has delegated.
C7_Witness ==
    \E a \in HasVoted, b \in HasVoted :
        /\ voters[a].vote # None /\ voters[a].delegate = None
        /\ voters[b].delegate # None /\ voters[b].vote = None

\* C8: in every step the weight of a voter with voted = true stays the same,
\* and a weight grows only for a voter with voted = false.
C8_WeightFrozenOnceVoted ==
    [][\A v \in Registered :
          /\ voters[v].voted => voters'[v].weight = voters[v].weight
          /\ voters'[v].weight > voters[v].weight => ~voters[v].voted]_vars

\* C8 witness: Y voted with weight 1 and then received a delegation, which
\* has just returned: Y's weight is still 1 while its proposal counts more.
C8_Witness ==
    /\ last.op = "delegate" /\ last.result = "ok"
    /\ \E y \in HasVoted :
          /\ voters[y].vote # None /\ voters[y].weight = 1
          /\ proposals[Unwrap(voters[y].vote) + 1].vote_count > 1
          /\ \E x \in HasVoted : voters[x].delegate = Some(y) /\ voters[x].weight > 0

\* C9: give_voting_right(target) fails when the caller is not the
\* chairperson, when target is not registered, or when target has
\* voted = true; otherwise it returns with target.weight = 1 and with the
\* chairperson, the proposals, every other voter record and target's voted,
\* delegate and vote as they were.
C9_GiveVotingRightFrame ==
    \A caller \in Accounts, target \in Accounts :
        LET out == give_voting_right(caller, target)
            after == Commit(out)
        IN  IF caller # chair_person \/ target \notin Registered \/ voters[target].voted
            THEN ~out.ok
            ELSE /\ out.ok
                 /\ after.voters[target].weight = 1
                 /\ after.voters[target].voted = voters[target].voted
                 /\ after.voters[target].delegate = voters[target].delegate
                 /\ after.voters[target].vote = voters[target].vote
                 /\ DOMAIN after.voters = Registered
                 /\ \A v \in Registered \ {target} : after.voters[v] = voters[v]
                 /\ after.chair_person = chair_person
                 /\ after.proposals = proposals

\* C9 witness: the chairperson has just given the right to vote to another
\* registered voter, who now has weight 1 and has not voted.
C9_Witness ==
    /\ last.op = "give_voting_right" /\ last.result = "ok"
    /\ \E v \in Registered \ {chair_person} : voters[v].weight = 1 /\ ~voters[v].voted

\* The largest vote_count, and the lowest position holding it.
MaxVoteCount ==
    CHOOSE m \in {proposals[k + 1].vote_count : k \in ValidIndices} :
        \A k \in ValidIndices : proposals[k + 1].vote_count <= m
LowestMaxIndex ==
    CHOOSE i \in ValidIndices :
        /\ proposals[i + 1].vote_count = MaxVoteCount
        /\ \A k \in ValidIndices : k < i => proposals[k + 1].vote_count < MaxVoteCount

\* C10: when some proposal has vote_count > 0, winning_proposal is the lowest
\* index among the proposals whose vote_count is the maximum.
C10_WinnerIsLowestMaxIndex ==
    (\E k \in ValidIndices : proposals[k + 1].vote_count > 0) =>
        winning_proposal(proposals) = Some(LowestMaxIndex)

\* C10 witness: two proposals tie on a positive maximal vote_count and
\* get_winning_proposal_name has just returned the name of the earlier one.
C10_Witness ==
    /\ last.op = "get_winning_proposal_name" /\ last.result = "ok"
    /\ \E i \in ValidIndices, k \in ValidIndices :
          /\ i < k
          /\ proposals[i + 1].vote_count = MaxVoteCount
          /\ proposals[k + 1].vote_count = MaxVoteCount
          /\ MaxVoteCount > 0
          /\ last.ret = Some(proposals[i + 1].name)
          /\ proposals[i + 1].name # proposals[k + 1].name

\* Every proposal has vote_count 0 (true of an empty list).
AllZero == \A k \in ValidIndices : proposals[k + 1].vote_count = 0

\* C11: winning_proposal is None exactly when every proposal has
\* vote_count 0, the empty list included; get_winning_proposal_name fails
\* with the no-winner panic in exactly those states and returns otherwise.
C11_NoWinnerIffAllZero ==
    /\ (winning_proposal(proposals) = None) <=> AllZero
    /\ (get_winning_proposal_name.msg = NoWinner) <=> AllZero
    /\ get_winning_proposal_name.ok <=> ~AllZero

\* C11 witness: get_winning_proposal_name has just failed with the no-winner
\* panic on a ballot that has proposals, none of them voted for.
C11_Witness ==
    /\ last.op = "get_winning_proposal_name"
    /\ last.result = NoWinner
    /\ Len(proposals) > 0

\* C12 (state part): the chairperson is a registered voter of weight >= 1;
\* right after construction it has weight 1, voted = false, and every
\* proposal has vote_count 0.
C12_ChairRegistered ==
    /\ chair_person \in Registered
    /\ voters[chair_person].weight >= 1
    /\ last.op = "new" =>
          /\ voters[chair_person].weight = 1
          /\ ~voters[chair_person].voted
          /\ AllZero

\* C12: the chairperson is registered with weight >= 1 in every reachable
\* state (weight 1, voted = false, all tallies 0 right after construction),
\* and no call changes who the chairperson is.
C12_ChairpersonFixed ==
    []C12_ChairRegistered /\ [][chair_person' = chair_person]_vars

\* C12 witness: the chairperson received a delegation of weight 1 while it
\* had not voted and then gave itself the right to vote again, which has
\* just returned: its weight is back at 1, the lowest it gets.
C12_Witness ==
    /\ last.op = "give_voting_right" /\ last.result = "ok"
    /\ ~voters[chair_person].voted
    /\ voters[chair_person].weight = 1
    /\ \E x \in HasVoted : voters[x].delegate = Some(chair_person) /\ voters[x].weight = 1

\* The record add_voter inserts.
FreshVoter == Voter(0, FALSE, None, None)

\* add_voter(id) returns true and inserts a fresh voter for id, changing
\* nothing else (inserted = TRUE), or returns false and changes nothing
\* (inserted = FALSE).
AddVoterOutcome(id, inserted) ==
    LET out == add_voter(id)
        after == Commit(out)
    IN  /\ out.ok
        /\ out.ret = Some(inserted)
        /\ after.chair_person = chair_person
        /\ after.proposals = proposals
        /\ \A v \in Registered \ {id} : v \in DOMAIN after.voters /\ after.voters[v] = voters[v]
        /\ IF inserted
           THEN DOMAIN after.voters = Registered \cup {id} /\ after.voters[id] = FreshVoter
           ELSE after.voters = voters

\* No step removes a voter.
C13_VotersNeverRemoved == Registered \subseteq DOMAIN voters'

\* add_voter has not been called for id yet, as far as the state tells: id is
\* not registered, or id is the chairperson of a ballot just constructed.
NotAddedYet(id) ==
    id \notin Registered \/ (id = chair_person /\ last.op = "new")

\* C13 as claimed: the first add_voter call for any id returns true and
\* inserts a fresh voter, every later one returns false and changes nothing.
C13_FirstCallInserts ==
    \A id \in Accounts : AddVoterOutcome(id, NotAddedYet(id))

\* C13 as claimed: add_voter(id) returns true the first time it is called
\* for an id and inserts a fresh voter; every later call with that id returns
\* false and changes nothing; voters are never removed.
C13_AddVoterAsClaimed ==
    []C13_FirstCallInserts /\ [][C13_VotersNeverRemoved]_vars

\* C13 amended (state part): add_voter(id) returns true and inserts a fresh
\* voter exactly when id is not registered; for a registered id, the
\* chairperson's included, it returns false and changes nothing.
C13_InsertsOnlyUnregistered ==
    \A id \in Accounts : AddVoterOutcome(id, id \notin Registered)

\* C13 amended: add_voter(id) returns true and inserts a fresh voter (weight
\* 0, voted = false, no delegate, no vote) when id is not registered, which
\* is the first call for every id but the chairperson's, registered by the
\* constructor; every call with a registered id returns false and changes
\* nothing, so no existing voter is ever reset; voters are never removed.
C13_AddVoterIdempotent ==
    []C13_InsertsOnlyUnregistered /\ [][C13_VotersNeverRemoved]_vars

\* C13 witness: add_voter has just returned false although every registered
\* voter, and there are several, holds a record that differs from a fresh one.
C13_Witness ==
    /\ last.op = "add_voter" /\ last.ret = Some(FALSE)
    /\ Cardinality(Registered) >= 2
    /\ \A v \in Registered : voters[v] # FreshVoter

\* C14 (step part): no step shortens the proposal list, renames a proposal
\* or lowers a vote_count.
C14_ProposalsOnlyGrow ==
    /\ Len(proposals') >= Len(proposals)
    /\ \A k \in 1..Len(proposals) :
          /\ proposals'[k].name = proposals[k].name
          /\ proposals'[k].vote_count >= proposals[k].vote_count

\* C14 (add_proposal): the call returns with one more proposal at the end,
\* of the given name and vote_count 0, and with every voter, the chairperson
\* and every earlier proposal as they were.
C14_AddProposalAppends ==
    Len(proposals) < Len(NamePool) =>
        LET name == NamePool[Len(proposals) + 1]
            out == add_proposal(name)
            after == Commit(out)
        IN  /\ out.ok
            /\ Len(after.proposals) = Len(proposals) + 1
            /\ after.proposals[Len(proposals) + 1] = Proposal(name, 0)
            /\ \A k \in 1..Len(proposals) : after.proposals[k] = proposals[k]
            /\ after.voters = voters
            /\ after.chair_person = chair_person

\* C14: the proposal list is append-only and tallies never go down, and
\* add_proposal appends one proposal with vote_count 0 and changes nothing
\* else.
C14_AppendOnlyTallies ==
    []C14_AddProposalAppends /\ [][C14_ProposalsOnlyGrow]_vars

\* C14 witness: add_proposal has just appended a second proposal, with
\* vote_count 0, behind a proposal that already has votes.
C14_Witness ==
    /\ last.op = "add_proposal" /\ last.result = "ok"
    /\ Len(proposals) = 2
    /\ proposals[1].vote_count > 0
    /\ proposals[2].vote_count = 0

\* C15: delegate(to) with to = caller fails with the self-delegation panic
\* for every caller, registered or not, voted or not, before any other
\* check; and no voter's delegate is its own id.
C15_SelfDelegationRejected ==
    /\ \A v \in Accounts : delegate(v, v).msg = SelfDelegation
    /\ \A v \in Registered : voters[v].delegate # Some(v)

\* C15 witness: a delegate call has just failed with the self-delegation
\* panic in a state with a voter that has voted, one that has not, and an
\* account that is not registered.
C15_Witness ==
    /\ last.op = "delegate" /\ last.result = SelfDelegation
    /\ HasVoted # {}
    /\ HasVoted # Registered
    /\ Registered # Accounts

\* C16: vote(i) with i not a position of the proposal list, by a registered
\* voter with voted = false and weight > 0, fails with the index panic and
\* leaves the proposals and the voter as they were, so that the voter can
\* still vote for every valid index; vote by a registered voter with
\* voted = false and weight 0 fails with the no-right panic.
C16_BadIndexRejected ==
    \A v \in Registered \ HasVoted :
        /\ voters[v].weight > 0 =>
              \A i \in VoteArgs \ ValidIndices :
                  LET out == vote(v, i)
                      after == Commit(out)
                  IN  /\ out.msg = IndexOutOfBounds
                      /\ after.proposals = proposals
                      /\ after.voters = voters
                      /\ \A j \in ValidIndices : vote(v, j).ok
        /\ voters[v].weight = 0 =>
              \A i \in VoteArgs : vote(v, i).msg = NoRight

\* C17 as claimed: every voter with voted = true has weight >= 1, and a
\* registered voter with weight 0 can neither vote nor delegate.
C17_OnlyEnfranchisedFinish ==
    /\ \A v \in HasVoted : voters[v].weight >= 1
    /\ \A v \in Registered :
          voters[v].weight = 0 =>
              /\ \A i \in VoteArgs : ~vote(v, i).ok
              /\ \A to \in Accounts : ~delegate(v, to).ok

\* C17 amended: every voter that has voted for a proposal (vote set) has
\* weight >= 1, and a registered voter with weight 0 cannot vote; delegate
\* does not look at the caller's weight, so a voter may well have delegated
\* with weight 0.
C17_OnlyEnfranchisedVote ==
    /\ \A v \in HasVoted : voters[v].vote # None => voters[v].weight >= 1
    /\ \A v \in Registered :
          voters[v].weight = 0 => \A i \in VoteArgs : ~vote(v, i).ok

\* C17 witness: one voter has voted for a proposal, another has delegated
\* with weight 0, and a vote call has just failed with the no-right panic.
C17_Witness ==
    /\ last.op = "vote" /\ last.result = NoRight
    /\ \E v \in HasVoted : voters[v].vote # None
    /\ \E v \in HasVoted : voters[v].delegate # None /\ voters[v].weight = 0
    /\ \E v \in Registered \ HasVoted : voters[v].weight = 0

\* C18: a voter other than the chairperson goes from weight 0 to weight >= 1
\* only in a give_voting_right call that returns.
C18_OnlyChairEnfranchises ==
    [][\A v \in Registered \ {chair_person} :
          (voters[v].weight = 0 /\ voters'[v].weight >= 1) =>
              (last'.op = "give_voting_right" /\ last'.result = "ok")]_vars

\* Sum of the vote_count of the proposals in `props`.
RECURSIVE SumCounts(_)
SumCounts(props) ==
    IF props = <<>> THEN 0
    ELSE props[1].vote_count + SumCounts(Tail(props))

\* Sum of the weights of the voters in `ids`.
RECURSIVE SumWeights(_)
SumWeights(ids) ==
    IF ids = {} THEN 0
    ELSE LET v == CHOOSE x \in ids : TRUE
         IN  voters[v].weight + SumWeights(ids \ {v})

\* C19: the tallies of all proposals plus the weights of the voters with
\* voted = false never exceed the number of registered voters.
C19_NoInflation ==
    SumCounts(proposals) + SumWeights(Registered \ HasVoted) <= Cardinality(Registered)

\* C19 witness: every registered voter, and there are at least two, has voted
\* or delegated, a delegation among them, and the tallies add up to their
\* number.
C19_Witness ==
    /\ Cardinality(Registered) >= 2
    /\ HasVoted = Registered
    /\ \E v \in HasVoted : voters[v].delegate # None
    /\ SumCounts(proposals) = Cardinality(Registered)

\* C20: no step lowers the weight of a voter.
C20_WeightNeverLowered ==
    [][\A v \in Registered : voters'[v].weight >= voters[v].weight]_vars

====
